---- MODULE Spec2Model ----
(***************************************************************************)
(* Model of the 'apply-to-job' action of src/index.ts (lines 231-613):     *)
(* one invocation of the handler, the remote page it drives, and the       *)
(* console listener that runs between the handler's awaits.                *)
(*                                                                         *)
(* Strings are TLA+ strings; a URL is the sequence of its '/'-separated    *)
(* segments.  A collaborator call (Kernel, Playwright, fetch, OpenAI) is   *)
(* an input of the action that makes it: it either completes or rejects.   *)
(***************************************************************************)
EXTENDS Integers, Sequences, FiniteSets, TLC

\* ------------------------------------------------------------------ bounds
\* console errors the page may emit during one invocation
MaxConsole == 2
\* validation-error markers on the page after the confirmation wait
MaxMarkers == 2
\* visible textareas on the application form
MaxQuestions == 2
\* labelled file inputs on the application form
MaxCandidates == 2
\* labels on the application form
MaxLabels == 2
\* '/'-separated segments of a request URL
MaxSegments == 3

\* ------------------------------------------------------------- value sets
Undefined == "undefined"

RequiredFields == {"url", "name", "email", "linkedin"}

\* a job URL, without and with the trailing /application
JobUrl == <<"jobs.example.com", "co", "role-id">>
UrlSamples == {JobUrl, JobUrl \o <<"application">>}

\* Texts are arbitrary strings; the k-th console error of a run and the k-th
\* marker of a page are named by their position, so that order is observable.
ConsoleTypes == {"error", "log"}
ConsoleText(k) == "console error " \o ToString(k)
MarkerText(k) == "marker " \o ToString(k)

\* the marker texts of a page, in page order
MarkerLists == {[i \in 1..n |-> MarkerText(i)] : n \in 0..MaxMarkers}

Range(s) == {s[i] : i \in 1..Len(s)}

\* lines 268-275: the number of selectors the scraper tries
SelectorCount == 6

\* a job page on which no selector matches and body has no text (see JobPages)
NoJobPage == [selectors |-> [k \in 1..SelectorCount |-> "absent"], body |-> ""]

\* a form without labels and placeholders (see FormsUpTo)
EmptyForm == [labels |-> <<>>, placeholders |-> <<>>]

\* a form without a file input (see FileControlsUpTo)
NoFileControls == [labelled |-> <<>>, fallback |-> "none"]

\* the file /tmp/resume.pdf does not exist; nothing was given to a file input
NoFile == "no file"
NoBytes == "no bytes"

\* the collaborator calls the handler makes, counted per invocation
CallNames == {"create", "goto", "fetch", "writeFile", "upload", "completion", "click",
              "waitForURL", "markerCheck", "successCheck", "close"}

VARIABLES
    payload,            \* the request: [missing, url, name, email, linkedin, resumePath, resumeUrl]
    pc,                 \* the handler's position
    kernelBrowser,      \* a Kernel browser session was provisioned (line 243)
    browser,            \* the 'browser' variable is assigned (line 247)
    listening,          \* page.on('console') is attached (line 252)
    consoleErrors,      \* the consoleErrors array (line 240)
    baseUrl,            \* line 260
    applicationUrl,     \* line 261
    jobPage,            \* the job page, as the scraper reads it
    jobDescription,     \* line 264
    formPage,           \* the labels and placeholders of the application form
    fills,              \* the fill calls of the field mapper, in order: [binding, control, value]
    filled,             \* bindings of fieldConfigs that were placed on a control
    resumeFetch,        \* "none", "ok", "fetchFailed" or "writeFailed" (lines 410-420)
    resumeFilePath,     \* line 409
    uploaded,           \* "skipped", "yes" or "no": setInputFiles succeeded on a file input
    fileControls,       \* the file inputs of the form, as the upload stage finds them
    uploadAttempts,     \* the setInputFiles calls made, in order: [control, file, ok]
    stagingFile,        \* what the file /tmp/resume.pdf holds (lines 415-416), or NoFile
    uploadedBytes,      \* what the file input received from setInputFiles, or NoBytes
    textareas,          \* the textareas of the form, in page order
    openEndedQuestions, \* line 486: the queued questions, [label, locator]
    questions,          \* number of entries of openEndedQuestions (line 486)
    qi,                 \* questions already processed by the answer loop
    prompts,            \* the prompts sent to the language model, in order
    answerFills,        \* the locators of the textareas filled with an answer
    answered,           \* number of questions whose textarea was filled with an answer
    submitCount,        \* what submitButton.count() returned (line 569), -1 before that
    navigated,          \* "unknown", "yes" or "no": waitForURL resolved in the window
    markers,            \* texts of the validation markers on the page, in page order
    successText,        \* the page shows the success text pattern
    scrapeFailed,       \* the catch clause at line 291 ran
    thrown,             \* the error that reached the catch clause at line 604, or NoError
    pending,            \* the value of the executed return statement
    closed,             \* browser.close() completed
    outcome,            \* "running", "returned" or "threw"
    result,             \* the record the caller receives
    calls               \* per collaborator call, the number of times it was made

vars == <<payload, pc, kernelBrowser, browser, listening, consoleErrors,
          baseUrl, applicationUrl, jobPage, jobDescription, formPage, fills, filled,
          resumeFetch, resumeFilePath,
          uploaded, fileControls, uploadAttempts, stagingFile, uploadedBytes,
          textareas, openEndedQuestions,
          questions, qi, prompts, answerFills, answered,
          submitCount, navigated, markers,
          successText, scrapeFailed, thrown, pending, closed, outcome,
          result, calls>>

\* --------------------------------------------------------------- payloads
\* A property of the payload is missing (undefined), empty or set.  A missing
\* payload is the payload with every property missing.
EmptyValue(f) == IF f = "url" THEN <<>> ELSE ""

Payloads ==
    {p \in [missing : SUBSET RequiredFields,
            url : UrlSamples \cup {<<>>},
            name : {"", "name-value"},
            email : {"", "email-value"},
            linkedin : {"", "linkedin-value"},
            resumePath : {Undefined, "My_Resume.pdf"},
            resumeUrl : {Undefined, "https://host/resume.pdf"}] :
        \A f \in p.missing : p[f] = EmptyValue(f)}

\* JavaScript truthiness of payload[f]
Truthy(p, f) == f \notin p.missing /\ p[f] # EmptyValue(f)

\* the check of line 235 without its last operand
IsIncompleteNoLinkedin(p) ==
    ~Truthy(p, "url") \/ ~Truthy(p, "name") \/ ~Truthy(p, "email")

\* line 235: !payload?.url || !payload.name || !payload.email || !payload.linkedin
IsIncomplete(p) ==
    ~Truthy(p, "url") \/ ~Truthy(p, "name") \/ ~Truthy(p, "email") \/ ~Truthy(p, "linkedin")

\* ------------------------------------------------------ URL normalization
\* line 260: url.replace(/\/application\/?$/, '')
StripApplication(url) ==
    LET n == Len(url)
    IN  IF n >= 2 /\ url[n] = "application" THEN SubSeq(url, 1, n - 1)
        ELSE IF n >= 3 /\ url[n] = "" /\ url[n - 1] = "application" THEN SubSeq(url, 1, n - 2)
        ELSE url

\* line 261: `${baseUrl}/application`
ApplicationUrl(base) == base \o <<"application">>

\* ---------------------------------------------------------------- errors
\* An Error a call at 'site' rejects with; its message names the site or is empty.
NoError == [message |-> "(no error)", site |-> "none"]
Errors(site) == {[message |-> m, site |-> site] : m \in {"", site}}

\* line 605: err?.message || String(err)
ErrorText(err) == IF err.message # "" THEN err.message ELSE "Error"

\* ---------------------------------------------------------------- results
NoResult == [none |-> TRUE]

\* line 236
MissingFieldsResult ==
    [success |-> FALSE, message |-> "Missing required fields",
     errors |-> <<"URL, name, email, and linkedin are required">>]

\* lines 579 and 593
SubmittedResult ==
    [success |-> TRUE, message |-> "Application submitted successfully."]

\* line 586
ValidationFailedResult(errorMessages) ==
    [success |-> FALSE, message |-> "Submission failed with validation errors.",
     errors |-> errorMessages]

\* the unverified submission reported as a failure
UnverifiedResultAsFailure ==
    [success |-> FALSE, message |-> "Application submitted, but confirmation could not be verified."]

\* line 598
UnverifiedResult ==
    [success |-> TRUE, message |-> "Application submitted, but confirmation could not be verified."]

\* line 602
SubmitNotFoundResult ==
    [success |-> FALSE, message |-> "Could not find submit button.",
     errors |-> <<"Submit button not found on page.">>]

\* lines 605-606
UnexpectedResult(err, errs) ==
    [success |-> FALSE, message |-> "An unexpected error occurred during the process.",
     errors |-> <<ErrorText(err)>> \o errs]

\* line 569: await submitButton.count() > 0
HasSubmitButton(count) == count > 0

\* --------------------------------------------------------------- helpers
Call(c) == calls' = [calls EXCEPT ![c] = @ + 1]

NoCall == UNCHANGED calls

\* a return statement inside the try block: the value is held while finally runs
Return(r) ==
    /\ pending' = r
    /\ pc' = "finally"

\* lines 604-606: the catch clause of the handler's try block
Catch(err) ==
    /\ thrown' = err
    /\ Return(UnexpectedResult(err, consoleErrors))

Goto(p) ==
    /\ pc' = p
    /\ UNCHANGED pending

session == <<kernelBrowser, browser, listening>>
urls == <<baseUrl, applicationUrl>>
scraper == <<jobPage, jobDescription, scrapeFailed>>
mapper == <<formPage, fills, filled>>
resume == <<resumeFetch, resumeFilePath, uploaded, fileControls, uploadAttempts,
            stagingFile, uploadedBytes>>
answers == <<textareas, openEndedQuestions, questions, qi, prompts, answerFills, answered>>
form == <<scraper, mapper, resume, answers>>
verifier == <<submitCount, navigated, markers, successText>>
final == <<closed, outcome, result>>

\* ------------------------------------------------------------------ Init
Init ==
    /\ payload \in Payloads
    /\ pc = "start"
    /\ kernelBrowser = FALSE
    /\ browser = FALSE
    /\ listening = FALSE
    /\ consoleErrors = <<>>
    /\ baseUrl = <<>>
    /\ applicationUrl = <<>>
    /\ jobPage = NoJobPage
    /\ jobDescription = ""
    /\ scrapeFailed = FALSE
    /\ formPage = EmptyForm
    /\ fills = <<>>
    /\ filled = {}
    /\ resumeFetch = "none"
    /\ resumeFilePath = Undefined
    /\ uploaded = "skipped"
    /\ fileControls = NoFileControls
    /\ uploadAttempts = <<>>
    /\ stagingFile = NoFile
    /\ uploadedBytes = NoBytes
    /\ textareas = <<>>
    /\ openEndedQuestions = <<>>
    /\ questions = 0
    /\ qi = 0
    /\ prompts = <<>>
    /\ answerFills = {}
    /\ answered = 0
    /\ submitCount = -1
    /\ navigated = "unknown"
    /\ markers = <<>>
    /\ successText = FALSE
    /\ thrown = NoError
    /\ pending = NoResult
    /\ closed = FALSE
    /\ outcome = "running"
    /\ result = NoResult
    /\ calls = [c \in CallNames |-> 0]

\* --------------------------------------------------------------- actions
\* lines 233-237: the request validator
Validate ==
    /\ pc = "start"
    /\ \/ /\ IsIncomplete(payload)
          /\ outcome' = "returned"
          /\ result' = MissingFieldsResult
          /\ pc' = "done"
          /\ UNCHANGED <<pending, closed>>
       \/ /\ ~IsIncomplete(payload)
          /\ Goto("create")
          /\ UNCHANGED final
    /\ NoCall
    /\ UNCHANGED <<payload, session, consoleErrors, urls, form, verifier, thrown>>

\* lines 243-246: kernel.browsers.create
CreateBrowser ==
    /\ pc = "create"
    /\ Call("create")
    /\ \/ /\ kernelBrowser' = TRUE
          /\ Goto("connect")
          /\ UNCHANGED thrown
       \/ /\ \E err \in Errors("create") : Catch(err)
          /\ UNCHANGED kernelBrowser
    /\ UNCHANGED <<payload, browser, listening, consoleErrors, urls, form, verifier, final>>

\* line 247: chromium.connectOverCDP
Connect ==
    /\ pc = "connect"
    /\ NoCall
    /\ \/ /\ browser' = TRUE
          /\ Goto("page")
          /\ UNCHANGED thrown
       \/ /\ \E err \in Errors("connect") : Catch(err)
          /\ UNCHANGED browser
    /\ UNCHANGED <<payload, kernelBrowser, listening, consoleErrors, urls, form, verifier, final>>

\* lines 248-261: take the page, attach the console listener, normalize the URL
OpenPage ==
    /\ pc = "page"
    /\ \/ /\ listening' = TRUE
          /\ baseUrl' = StripApplication(payload.url)
          /\ applicationUrl' = ApplicationUrl(StripApplication(payload.url))
          /\ Goto("scrape")
          /\ UNCHANGED thrown
       \/ /\ \E err \in Errors("page") : Catch(err)
          /\ UNCHANGED <<listening, urls>>
    /\ NoCall
    /\ UNCHANGED <<payload, kernelBrowser, browser, consoleErrors, form, verifier, final>>

\* lines 252-257: the console listener; only messages of type 'error' are kept.
\* Messages arrive between the handler's awaits, until the browser is closed.
ConsoleMessage ==
    /\ listening
    /\ ~closed
    /\ pc # "done"
    /\ Len(consoleErrors) < MaxConsole
    /\ \E type \in ConsoleTypes :
          consoleErrors' = IF type = "error"
                           THEN Append(consoleErrors, ConsoleText(Len(consoleErrors) + 1))
                           ELSE consoleErrors
    /\ NoCall
    /\ UNCHANGED <<payload, pc, session, urls, form, verifier, thrown, pending,
                   final>>

\* ---------------------------------------------------------- context scraper
\* The job page as lines 277-288 read it: per selector of lines 268-275, in that
\* order, whether it matches no element ("absent"), or an element whose
\* innerText is '' ("empty") or a text ("text"); and the innerText of body.
SelectorText(k) == "text of selector " \o ToString(k)
BodyTexts == {"", "page text"}

JobPages == [selectors : [1..SelectorCount -> {"absent", "empty", "text"}], body : BodyTexts]

\* a job page whose first selector holds the description, and an empty page
JobPageSamples ==
    {[selectors |-> [k \in 1..SelectorCount |-> IF k = 1 THEN "text" ELSE "absent"],
      body |-> "page text"],
     NoJobPage}

\* lines 277-284: the loop from the k-th selector on; it takes the innerText of
\* the first selector that matches an element (count > 0) and breaks
RECURSIVE FirstSelectorText(_, _)
FirstSelectorText(page, k) ==
    IF k > SelectorCount THEN ""
    ELSE IF page.selectors[k] = "absent" THEN FirstSelectorText(page, k + 1)
    ELSE IF page.selectors[k] = "text" THEN SelectorText(k)
    ELSE ""

\* lines 277-290: the body text is taken if (!jobDescription)
ScrapedText(page) ==
    IF FirstSelectorText(page, 1) # "" THEN FirstSelectorText(page, 1) ELSE page.body

\* the scraper without the try block of line 265: a rejected call reaches the
\* catch clause of the handler
ScrapeUnguardedOn(pages) ==
    /\ pc = "scrape"
    /\ Call("goto")
    /\ \/ /\ \E page \in pages :
                /\ jobPage' = page
                /\ jobDescription' = ScrapedText(page)
          /\ Goto("application")
          /\ UNCHANGED <<scrapeFailed, thrown>>
       \/ /\ scrapeFailed' = TRUE
          /\ \E err \in Errors("scrape") : Catch(err)
          /\ UNCHANGED <<jobPage, jobDescription>>
    /\ UNCHANGED <<payload, session, consoleErrors, urls, mapper, resume, answers,
                   verifier, final>>

\* lines 263-293: the context scraper.  A rejected goto, count or innerText is
\* caught at line 291; jobDescription is then still '' (a call can reject only
\* while it is '').
ScrapeJobDescriptionOn(pages) ==
    /\ pc = "scrape"
    /\ Call("goto")
    /\ \/ \E page \in pages :
             /\ jobPage' = page
             /\ jobDescription' = ScrapedText(page)
             /\ UNCHANGED scrapeFailed
       \/ /\ scrapeFailed' = TRUE
          /\ UNCHANGED <<jobPage, jobDescription>>
    /\ Goto("application")
    /\ UNCHANGED thrown
    /\ UNCHANGED <<payload, session, consoleErrors, urls, mapper, resume, answers,
                   verifier, final>>

ScrapeJobDescription == ScrapeJobDescriptionOn(JobPageSamples)

\* lines 295-346: open the application page and log its structure
GotoApplication ==
    /\ pc = "application"
    /\ Call("goto")
    /\ \/ /\ Goto("fields")
          /\ UNCHANGED thrown
       \/ \E err \in Errors("goto") : Catch(err)
    /\ UNCHANGED <<payload, session, consoleErrors, urls, form, verifier, final>>

\* ----------------------------------------------------------- field mapper
\* lines 350-354: fieldConfigs, in list order
Bindings == <<"name", "email", "linkedin">>

\* the texts of the labels and placeholders of the forms explored exhaustively:
\* one for a required binding, one for the optional binding, one for neither
FieldTexts == {"Full Name", "LinkedIn", "Phone"}


\* lines 361 and 390: label.test(text) for the patterns /name|full name/i,
\* /email/i and /linkedin/i on these texts
Matches(b, text) ==
    \/ b = "name" /\ text = "Full Name"
    \/ b = "email" /\ text = "Email"
    \/ b = "linkedin" /\ text = "LinkedIn"

\* A label as lines 360-374 read it: its text, its 'for' attribute ("none" when
\* absent, else whether #id exists: "resolved" or "unresolved") and whether an
\* input or textarea is nested in it.
Labels == [text : FieldTexts, for : {"none", "resolved", "unresolved"}, nested : BOOLEAN]

SeqUpTo(S, n) == UNION {[1..k -> S] : k \in 0..n}

\* the placeholder-bearing inputs and textareas (line 385), by placeholder text
PlaceholderLists ==
    {<<>>} \cup {<<t>> : t \in FieldTexts} \cup {<<t, u>> : t, u \in FieldTexts}

\* the application form as the field mapper sees it, labels in page order
FormsUpTo(n) == [labels : SeqUpTo(Labels, n), placeholders : PlaceholderLists]

Forms == FormsUpTo(MaxLabels)

\* a form on which every binding finds its control by label, and a form on which
\* only the email binding finds one, by placeholder
FormSamples ==
    {[labels |-> <<[text |-> "Full Name", for |-> "resolved", nested |-> FALSE],
                   [text |-> "Email", for |-> "none", nested |-> TRUE],
                   [text |-> "LinkedIn", for |-> "resolved", nested |-> FALSE]>>,
      placeholders |-> <<>>],
     [labels |-> <<[text |-> "Phone", for |-> "resolved", nested |-> FALSE]>>,
      placeholders |-> <<"Email">>]}

\* a control of the form, named by how it was reached and from which element
NoControl == [via |-> "none", at |-> 0]
Control(via, k) == [via |-> via, at |-> k]

\* lines 362-380: the control a matching label gives: its 'for' target when the
\* attribute is set (nothing if #id does not exist), else the nested control
LabelControl(label, k) ==
    IF label.for # "none"
    THEN IF label.for = "resolved" THEN Control("for", k) ELSE NoControl
    ELSE IF label.nested THEN Control("nested", k) ELSE NoControl

\* the label scan that goes on to the last matching label
RECURSIVE LastLabelledControl(_, _, _)
LastLabelledControl(labels, b, k) ==
    IF k > Len(labels) THEN NoControl
    ELSE LET later == LastLabelledControl(labels, b, k + 1)
         IN  IF later # NoControl THEN later
             ELSE IF Matches(b, labels[k].text) THEN LabelControl(labels[k], k)
             ELSE NoControl

\* lines 359-382: the label scan from the k-th label on; it breaks at the first
\* matching label that gives a control
RECURSIVE FirstLabelledControl(_, _, _)
FirstLabelledControl(labels, b, k) ==
    IF k > Len(labels) THEN NoControl
    ELSE IF Matches(b, labels[k].text) /\ LabelControl(labels[k], k) # NoControl
         THEN LabelControl(labels[k], k)
         ELSE FirstLabelledControl(labels, b, k + 1)

\* lines 385-396: the placeholder scan from the i-th input on
RECURSIVE FirstPlaceholderControl(_, _, _)
FirstPlaceholderControl(placeholders, b, i) ==
    IF i > Len(placeholders) THEN NoControl
    ELSE IF Matches(b, placeholders[i]) THEN Control("placeholder", i)
    ELSE FirstPlaceholderControl(placeholders, b, i + 1)

\* lines 356-397: the control filled for a binding: by label, and by placeholder
\* only if (!filled)
FieldTarget(f, b) ==
    LET byLabel == FirstLabelledControl(f.labels, b, 1)
    IN  IF byLabel # NoControl THEN byLabel
        ELSE FirstPlaceholderControl(f.placeholders, b, 1)

\* lines 366, 375, 391: one call of fill
FillCall(f, p, b) == [binding |-> b, control |-> FieldTarget(f, b), value |-> p[b]]

\* the fill calls of a loop that stops at the first binding without a control
RECURSIVE FillCallsUntilUnplaced(_, _, _)
FillCallsUntilUnplaced(f, p, n) ==
    IF n = 0 THEN <<>>
    ELSE LET before == FillCallsUntilUnplaced(f, p, n - 1)
         IN  IF Len(before) = n - 1 /\ FieldTarget(f, Bindings[n]) # NoControl
             THEN before \o <<FillCall(f, p, Bindings[n])>>
             ELSE before

\* the fill calls of the first n iterations of the loop of line 355
RECURSIVE FillCalls(_, _, _)
FillCalls(f, p, n) ==
    IF n = 0 THEN <<>>
    ELSE FillCalls(f, p, n - 1)
            \o (IF FieldTarget(f, Bindings[n]) # NoControl
                THEN <<FillCall(f, p, Bindings[n])>> ELSE <<>>)

BindingsOf(calls_) == {calls_[i].binding : i \in 1..Len(calls_)}

\* lines 348-405: the field mapper.  An unplaced binding is only logged (lines
\* 398-404).  In the i-th iteration a label or placeholder query may reject, or
\* the fill itself; either reaches the catch clause of line 604.
MapFieldsOn(forms) ==
    /\ pc = "fields"
    /\ \E f \in forms :
          /\ formPage' = f
          /\ \/ /\ fills' = FillCalls(f, payload, Len(Bindings))
                /\ filled' = BindingsOf(fills')
                /\ Goto("resume")
                /\ UNCHANGED thrown
             \/ \E i \in 1..Len(Bindings), rejected \in {"query", "fill"} :
                   /\ rejected = "fill" => FieldTarget(f, Bindings[i]) # NoControl
                   /\ fills' = IF rejected = "fill"
                               THEN FillCalls(f, payload, i)
                               ELSE FillCalls(f, payload, i - 1)
                   /\ filled' = BindingsOf(FillCalls(f, payload, i - 1))
                   /\ \E err \in Errors("fill") : Catch(err)
    /\ NoCall
    /\ UNCHANGED <<payload, session, consoleErrors, urls, scraper, resume, answers,
                   verifier, final>>

MapFields == MapFieldsOn(FormSamples)

\* line 415: where a downloaded resume is stored
StagedResume == "/tmp/resume.pdf"

\* how the download of lines 412-416 may end: the fetch rejects, answers with a
\* non-2xx status or its body cannot be read ("fetchFailed"), the file is written
\* ("ok"), or writeFileSync throws after line 415 ("writeFailed")
FetchOutcomes == {"fetchFailed", "ok", "writeFailed"}

\* the resume source when a local path, if given, is taken before the download
ResumeFilePathPreferLocal(p, fetch) ==
    IF p.resumePath # Undefined THEN p.resumePath
    ELSE IF p.resumeUrl # Undefined /\ fetch # "fetchFailed" THEN StagedResume
    ELSE Undefined

\* the resume source when a failed download leaves the request without one
ResumeFilePathNoFallback(p, fetch) ==
    IF p.resumeUrl = Undefined THEN p.resumePath
    ELSE IF fetch # "fetchFailed" THEN StagedResume
    ELSE Undefined

\* lines 409-421: the value of resumeFilePath after the download, if any
ResumeFilePath(p, fetch) ==
    IF p.resumeUrl # Undefined /\ fetch # "fetchFailed" THEN StagedResume
    ELSE p.resumePath

\* the bytes a fetch of a URL answers with, or the bytes of a local file
BytesAt(source) == "bytes of " \o source

\* lines 412-416: what /tmp/resume.pdf holds after the download: the fetched bytes
\* when writeFileSync ran, else what it held before
StagedBytes(p, fetch, staging) ==
    IF p.resumeUrl # Undefined /\ fetch = "ok" THEN BytesAt(p.resumeUrl) ELSE staging

\* lines 407-421: the resume source; a failed download is caught at line 418
ResolveResume ==
    /\ pc = "resume"
    /\ \/ /\ payload.resumeUrl = Undefined
          /\ NoCall
          /\ UNCHANGED resumeFetch
       \/ /\ payload.resumeUrl # Undefined
          /\ resumeFetch' \in FetchOutcomes
          /\ calls' = [calls EXCEPT !["fetch"] = @ + 1,
                                    !["writeFile"] = IF resumeFetch' = "fetchFailed"
                                                     THEN @ ELSE @ + 1]
    /\ resumeFilePath' = ResumeFilePath(payload, resumeFetch')
    /\ stagingFile' = StagedBytes(payload, resumeFetch', stagingFile)
    /\ Goto("upload")
    /\ UNCHANGED <<payload, session, consoleErrors, urls, scraper, mapper, uploaded,
                   fileControls, uploadAttempts, uploadedBytes, answers, verifier, thrown,
                   final>>

\* lines 427-476: the file inputs of the form, as the upload stage finds them.
\* 'labelled' holds, in page order, one entry per label whose text matches
\* /resume/i or /cv/i and whose file input exists (lines 433-437 and 449-451);
\* 'fallback' is the first input[type=file] of the page (lines 467-468), "none"
\* when the page has no file input.  An entry tells what setInputFiles does on
\* that control: "ok" or "fail".
FileControlsUpTo(n) ==
    {fc \in [labelled : UNION {[1..k -> {"ok", "fail"}] : k \in 0..n},
             fallback : {"none", "ok", "fail"}] :
        Len(fc.labelled) > 0 => fc.fallback # "none"}

FileControls == FileControlsUpTo(MaxCandidates)

\* three forms: without a file input, with a labelled input that takes the file,
\* and with a labelled input on which every upload fails
FileControlSamples ==
    {NoFileControls,
     [labelled |-> <<"ok">>, fallback |-> "ok"],
     [labelled |-> <<"fail">>, fallback |-> "fail"]}

\* one call of setInputFiles (lines 439, 453, 470)
Attempt(control, file, does) ==
    [control |-> control, file |-> file, ok |-> does = "ok"]

\* the labelled candidates when the first rejected call ends the loop
RECURSIVE LabelledAttemptsUntilFailure(_, _, _)
LabelledAttemptsUntilFailure(labelled, k, file) ==
    IF k > Len(labelled) THEN <<>>
    ELSE <<Attempt("label " \o ToString(k), file, labelled[k])>>

\* lines 431-464: the labelled candidates from the k-th on; a rejected call is
\* caught (lines 443, 457) and the loop goes on, a completed one breaks the loop
RECURSIVE LabelledAttempts(_, _, _)
LabelledAttempts(labelled, k, file) ==
    IF k > Len(labelled) THEN <<>>
    ELSE IF labelled[k] = "ok" THEN <<Attempt("label " \o ToString(k), file, "ok")>>
    ELSE <<Attempt("label " \o ToString(k), file, "fail")>>
             \o LabelledAttempts(labelled, k + 1, file)

\* the value of fileInputFound after the given attempts
FileInputFound(attempts) == \E i \in 1..Len(attempts) : attempts[i].ok

\* a fallback that is tried whatever the labelled candidates did
FallbackAlways(fc, found, file) ==
    IF fc.fallback # "none"
    THEN <<Attempt("first file input", file, fc.fallback)>>
    ELSE <<>>

\* lines 465-477: the fallback is tried only if (!fileInputFound)
FallbackAttempts(fc, found, file) ==
    IF ~found /\ fc.fallback # "none"
    THEN <<Attempt("first file input", file, fc.fallback)>>
    ELSE <<>>

\* lines 427-477: every setInputFiles call of the stage, in order
UploadAttempts(fc, file) ==
    LET byLabel == LabelledAttempts(fc.labelled, 1, file)
    IN  byLabel \o FallbackAttempts(fc, FileInputFound(byLabel), file)

\* lines 439, 453, 470: what setInputFiles reads when it is called with the path:
\* the staging file as it is at that moment, or the local file
FileContent(path, staging) == IF path = StagedResume THEN staging ELSE BytesAt(path)

\* no file input of the form takes a file
AcceptsNothing(fc) ==
    /\ fc.fallback # "ok"
    /\ \A k \in 1..Len(fc.labelled) : fc.labelled[k] # "ok"

\* lines 422-482: attach the resume.  A rejected setInputFiles is caught and
\* logged; a label or count query (lines 430-437, 450-451, 468), made outside the
\* inner try blocks, may reject after any number of failed attempts.  A call
\* with the path of a file that does not exist is rejected on every control.
AttachResumeOn(controls) ==
    /\ pc = "upload"
    /\ \/ /\ resumeFilePath = Undefined
          /\ Goto("questions")
          /\ NoCall
          /\ UNCHANGED <<uploaded, fileControls, uploadAttempts, uploadedBytes, thrown>>
       \/ /\ resumeFilePath # Undefined
          /\ \E fc \in controls :
                LET all == UploadAttempts(fc, resumeFilePath)
                    byLabel == LabelledAttempts(fc.labelled, 1, resumeFilePath)
                IN  /\ FileContent(resumeFilePath, stagingFile) = NoFile => AcceptsNothing(fc)
                    /\ fileControls' = fc
                    /\ \/ /\ uploadAttempts' = all
                          /\ uploaded' = IF FileInputFound(all) THEN "yes" ELSE "no"
                          /\ Goto("questions")
                          /\ UNCHANGED thrown
                       \/ /\ \E j \in 0..Len(byLabel) :
                                /\ ~FileInputFound(SubSeq(byLabel, 1, j))
                                /\ uploadAttempts' = SubSeq(byLabel, 1, j)
                          /\ uploaded' = "no"
                          /\ \E err \in Errors("label") : Catch(err)
                    /\ calls' = [calls EXCEPT !["upload"] = @ + Len(uploadAttempts')]
                    /\ uploadedBytes' = IF FileInputFound(uploadAttempts')
                                        THEN FileContent(resumeFilePath, stagingFile)
                                        ELSE NoBytes
    /\ UNCHANGED <<payload, session, consoleErrors, urls, scraper, mapper, resumeFetch,
                   resumeFilePath, stagingFile, answers, verifier, final>>

AttachResume == AttachResumeOn(FileControlSamples)

\* ------------------------------------------------------ open-ended questions
\* A textarea as lines 490-516 read it: whether it is visible, and the trimmed
\* text each label strategy finds ("" when the strategy finds no element or no
\* text): label[for=id], an ancestor label, the preceding sibling element.
Textareas ==
    [visible : BOOLEAN, byFor : {"", "for label"}, byAncestor : {"", "ancestor label"},
     bySibling : {"", "sibling text"}]

\* the textareas of the form, in page order
TextareaListsUpTo(n) == SeqUpTo(Textareas, n)

TextareaLists == TextareaListsUpTo(MaxQuestions)

\* a visible textarea with a label[for=id]
LabelledTextarea ==
    [visible |-> TRUE, byFor |-> "for label", byAncestor |-> "", bySibling |-> ""]

\* forms with 0..MaxQuestions textareas, all visible and labelled
TextareaSamples == {[i \in 1..n |-> LabelledTextarea] : n \in 0..MaxQuestions}

\* lines 494-516: the first strategy that gives a text, else ''
LabelText(t) ==
    IF t.byFor # "" THEN t.byFor
    ELSE IF t.byAncestor # "" THEN t.byAncestor
    ELSE t.bySibling

\* the scan that queues only the textareas for which a label was found
RECURSIVE LabelledQuestionsFrom(_, _)
LabelledQuestionsFrom(tas, i) ==
    IF i > Len(tas) THEN <<>>
    ELSE (IF tas[i].visible /\ LabelText(tas[i]) # ""
          THEN <<[label |-> LabelText(tas[i]), locator |-> i]>> ELSE <<>>)
            \o LabelledQuestionsFrom(tas, i + 1)

\* lines 489-519: the scan from the i-th textarea on; a visible textarea is
\* pushed with its label text and its locator (its position among the textareas)
RECURSIVE QuestionsFrom(_, _)
QuestionsFrom(tas, i) ==
    IF i > Len(tas) THEN <<>>
    ELSE (IF tas[i].visible
          THEN <<[label |-> LabelText(tas[i]), locator |-> i]>> ELSE <<>>)
            \o QuestionsFrom(tas, i + 1)

\* lines 484-524: collect the visible textareas; any query of the scan may reject
ExtractQuestionsOn(lists) ==
    /\ pc = "questions"
    /\ \E tas \in lists :
          /\ textareas' = tas
          /\ \/ /\ openEndedQuestions' = QuestionsFrom(tas, 1)
                /\ questions' = Len(openEndedQuestions')
                /\ Goto(IF questions' > 0 THEN "openai" ELSE "submit")
                /\ UNCHANGED thrown
             \/ /\ \E err \in Errors("textarea") : Catch(err)
                /\ UNCHANGED <<openEndedQuestions, questions>>
    /\ NoCall
    /\ UNCHANGED <<payload, session, consoleErrors, urls, scraper, mapper, resume,
                   qi, prompts, answerFills, answered, verifier, final>>

ExtractQuestions == ExtractQuestionsOn(TextareaSamples)

\* line 526: new OpenAI(), outside the per-question try block
NewOpenAI ==
    /\ pc = "openai"
    /\ \/ /\ Goto("answers")
          /\ UNCHANGED thrown
       \/ \E err \in Errors("openai") : Catch(err)
    /\ NoCall
    /\ UNCHANGED <<payload, session, consoleErrors, urls, form, verifier, final>>

\* lines 531-542: the prompt; ${jobDescription || 'Not available'}
Prompt(description, label) ==
    [context |-> IF description # "" THEN description ELSE "Not available",
     question |-> label]

\* the ways one iteration leaves its textarea empty: the completion rejects or the
\* fill rejects (both caught at line 561), or the answer is empty (line 558)
AnswerFailures == {"completion rejected", "empty answer", "fill rejected"}

\* one iteration of an answer loop without the try block of line 530: a failure
\* reaches the catch clause of the handler
AnswerQuestionAborting ==
    /\ pc = "answers"
    /\ qi < questions
    /\ Call("completion")
    /\ qi' = qi + 1
    /\ prompts' = Append(prompts, Prompt(jobDescription, openEndedQuestions[qi + 1].label))
    /\ \/ /\ answerFills' = answerFills \cup {openEndedQuestions[qi + 1].locator}
          /\ answered' = answered + 1
          /\ Goto(IF qi + 1 = questions THEN "submit" ELSE "answers")
          /\ UNCHANGED thrown
       \/ /\ \E err \in Errors("completion") : Catch(err)
          /\ UNCHANGED <<answerFills, answered>>
    /\ UNCHANGED <<payload, session, consoleErrors, urls, scraper, mapper, resume,
                   textareas, openEndedQuestions, questions, verifier, final>>

\* an answer stage that hands over to the submission stage after its first
\* iteration, whatever is left in the queue
AnswerFirstQuestionOnly ==
    /\ pc = "answers"
    /\ qi < questions
    /\ Call("completion")
    /\ qi' = qi + 1
    /\ prompts' = Append(prompts, Prompt(jobDescription, openEndedQuestions[qi + 1].label))
    /\ \/ /\ answerFills' = answerFills \cup {openEndedQuestions[qi + 1].locator}
          /\ answered' = answered + 1
       \/ /\ \E failure \in AnswerFailures : TRUE
          /\ UNCHANGED <<answerFills, answered>>
    /\ Goto("submit")
    /\ UNCHANGED <<payload, session, consoleErrors, urls, scraper, mapper, resume,
                   textareas, openEndedQuestions, questions, verifier, thrown, final>>

\* lines 528-564: one iteration of the answer loop
AnswerQuestion ==
    /\ pc = "answers"
    /\ qi < questions
    /\ Call("completion")
    /\ qi' = qi + 1
    /\ prompts' = Append(prompts, Prompt(jobDescription, openEndedQuestions[qi + 1].label))
    /\ \/ /\ answerFills' = answerFills \cup {openEndedQuestions[qi + 1].locator}
          /\ answered' = answered + 1
       \/ /\ \E failure \in AnswerFailures : TRUE
          /\ UNCHANGED <<answerFills, answered>>
    /\ Goto(IF qi + 1 = questions THEN "submit" ELSE "answers")
    /\ UNCHANGED <<payload, session, consoleErrors, urls, scraper, mapper, resume,
                   textareas, openEndedQuestions, questions, verifier, thrown, final>>

\* lines 567-571 and 600-603: look for the submit button; line 571 (the click) is
\* commented out in the source, so no click is made
FindSubmit ==
    /\ pc = "submit"
    /\ \/ /\ \E count \in 0..1 :
                /\ submitCount' = count
                /\ IF HasSubmitButton(count)
                   THEN Goto("wait")
                   ELSE Return(SubmitNotFoundResult)
          /\ UNCHANGED thrown
       \/ /\ \E err \in Errors("submit") : Catch(err)
          /\ UNCHANGED submitCount
    /\ NoCall
    /\ UNCHANGED <<payload, session, consoleErrors, urls, form, navigated, markers,
                   successText, final>>

\* lines 575-580: wait for the confirmation URL; a timeout (or any other rejection)
\* is caught at line 580.  The page's content after the wait is an input.
WaitForURL ==
    /\ pc = "wait"
    /\ Call("waitForURL")
    /\ markers' \in MarkerLists
    /\ successText' \in BOOLEAN
    /\ \/ /\ navigated' = "yes"
          /\ Return(SubmittedResult)
       \/ /\ navigated' = "no"
          /\ Goto("checkErrors")
    /\ UNCHANGED <<payload, session, consoleErrors, urls, form, submitCount, thrown, final>>

\* a verifier that looks for the success text before the validation markers
CheckSuccessBeforeMarkers ==
    /\ pc = "checkErrors"
    /\ Call("markerCheck")
    /\ \/ /\ IF successText
             THEN Return(SubmittedResult)
             ELSE IF Len(markers) > 0
                  THEN Return(ValidationFailedResult(markers))
                  ELSE Goto("checkSuccess")
          /\ UNCHANGED thrown
       \/ \E err \in Errors("markers") : Catch(err)
    /\ UNCHANGED <<payload, session, consoleErrors, urls, form, verifier, final>>

\* lines 581-587: inline validation errors
CheckValidationErrors ==
    /\ pc = "checkErrors"
    /\ Call("markerCheck")
    /\ \/ /\ IF Len(markers) > 0
             THEN Return(ValidationFailedResult(markers))
             ELSE Goto("checkSuccess")
          /\ UNCHANGED thrown
       \/ \E err \in Errors("markers") : Catch(err)
    /\ UNCHANGED <<payload, session, consoleErrors, urls, form, verifier, final>>

\* lines 589-598: success text on the same page, else an unverified submission
CheckSuccessMessage ==
    /\ pc = "checkSuccess"
    /\ Call("successCheck")
    /\ \/ /\ Return(IF successText THEN SubmittedResult ELSE UnverifiedResult)
          /\ UNCHANGED thrown
       \/ \E err \in Errors("success") : Catch(err)
    /\ UNCHANGED <<payload, session, consoleErrors, urls, form, verifier, final>>

\* a handler whose failure result shares the consoleErrors array instead of
\* copying it: the caller sees the array as it is when the handler settles
FinallySharingConsoleErrors ==
    /\ pc = "finally"
    /\ pc' = "done"
    /\ \/ /\ ~browser
          /\ NoCall
          /\ outcome' = "returned"
          /\ result' = pending
          /\ UNCHANGED closed
       \/ /\ browser
          /\ Call("close")
          /\ \/ /\ closed' = TRUE
                /\ outcome' = "returned"
                /\ result' = IF thrown # NoError
                             THEN UnexpectedResult(thrown, consoleErrors)
                             ELSE pending
             \/ /\ outcome' = "threw"
                /\ UNCHANGED <<closed, result>>
    /\ UNCHANGED <<payload, session, consoleErrors, urls, form, verifier, thrown, pending>>

\* lines 607-611: the finally clause, then the handler settles
Finally ==
    /\ pc = "finally"
    /\ pc' = "done"
    /\ \/ /\ ~browser
          /\ NoCall
          /\ outcome' = "returned"
          /\ result' = pending
          /\ UNCHANGED closed
       \/ /\ browser
          /\ Call("close")
          /\ \/ /\ closed' = TRUE
                /\ outcome' = "returned"
                /\ result' = pending
             \/ /\ outcome' = "threw"
                /\ UNCHANGED <<closed, result>>
    /\ UNCHANGED <<payload, session, consoleErrors, urls, form, verifier, thrown, pending>>

Next ==
    \/ Validate
    \/ CreateBrowser
    \/ Connect
    \/ OpenPage
    \/ ConsoleMessage
    \/ ScrapeJobDescription
    \/ GotoApplication
    \/ MapFields
    \/ ResolveResume
    \/ AttachResume
    \/ ExtractQuestions
    \/ NewOpenAI
    \/ AnswerQuestion
    \/ FindSubmit
    \/ WaitForURL
    \/ CheckValidationErrors
    \/ CheckSuccessMessage
    \/ Finally

Spec == Init /\ [][Next]_vars

\* ---------------------------------------------------- stage specifications
\* One stage of the handler on every page of a bounded size, started in the
\* state in which the handler reaches the stage: a complete request, the session
\* open, the listener attached, the URLs normalized.
SampleRequest ==
    [missing |-> {}, url |-> JobUrl, name |-> "name-value", email |-> "email-value",
     linkedin |-> "linkedin-value", resumePath |-> "My_Resume.pdf", resumeUrl |-> Undefined]

\* the handler stands at position p after lines 233-261
SessionOpen(p) ==
    /\ payload = SampleRequest
    /\ pc = p
    /\ kernelBrowser = TRUE
    /\ browser = TRUE
    /\ listening = TRUE
    /\ consoleErrors = <<>>
    /\ baseUrl = StripApplication(SampleRequest.url)
    /\ applicationUrl = ApplicationUrl(StripApplication(SampleRequest.url))
    /\ submitCount = -1
    /\ navigated = "unknown"
    /\ markers = <<>>
    /\ successText = FALSE
    /\ thrown = NoError
    /\ pending = NoResult
    /\ closed = FALSE
    /\ outcome = "running"
    /\ result = NoResult

\* line 264: nothing was scraped, or the job page gave no text
ScraperIdle ==
    /\ jobPage = NoJobPage
    /\ jobDescription = ""
    /\ scrapeFailed = FALSE

\* lines 348-355: nothing was filled yet
MapperIdle ==
    /\ formPage = EmptyForm
    /\ fills = <<>>
    /\ filled = {}

\* lines 407-409: no resume was resolved yet
ResumeIdle ==
    /\ resumeFetch = "none"
    /\ resumeFilePath = Undefined
    /\ uploaded = "skipped"
    /\ fileControls = NoFileControls
    /\ uploadAttempts = <<>>
    /\ stagingFile = NoFile
    /\ uploadedBytes = NoBytes

\* lines 484-488: no question was extracted yet
AnswersIdle ==
    /\ textareas = <<>>
    /\ openEndedQuestions = <<>>
    /\ questions = 0
    /\ qi = 0
    /\ prompts = <<>>
    /\ answerFills = {}
    /\ answered = 0

\* the calls made when the job page and then the application page were opened
CallsAfterGoto == [c \in CallNames |-> IF c = "create" THEN 1 ELSE IF c = "goto" THEN 2 ELSE 0]

\* the field mapper on every form of up to MaxLabels labels
InitFields ==
    /\ SessionOpen("fields")
    /\ ScraperIdle
    /\ MapperIdle
    /\ ResumeIdle
    /\ AnswersIdle
    /\ calls = CallsAfterGoto

MapFieldsAny == MapFieldsOn(Forms)

NextFields == MapFieldsAny

SpecFields == InitFields /\ [][NextFields]_vars

\* the context scraper on every job page
InitScrape ==
    /\ SessionOpen("scrape")
    /\ ScraperIdle
    /\ MapperIdle
    /\ ResumeIdle
    /\ AnswersIdle
    /\ calls = [c \in CallNames |-> IF c = "create" THEN 1 ELSE 0]

ScrapeAny == ScrapeJobDescriptionOn(JobPages)

NextScrape == ScrapeAny

SpecScrape == InitScrape /\ [][NextScrape]_vars

\* the resume upload on every form of up to MaxCandidates labelled file inputs,
\* followed by the later stages: the local resume of the request is the source
InitUpload ==
    /\ SessionOpen("upload")
    /\ ScraperIdle
    /\ MapperIdle
    /\ resumeFetch = "none"
    /\ resumeFilePath = SampleRequest.resumePath
    /\ uploaded = "skipped"
    /\ fileControls = NoFileControls
    /\ uploadAttempts = <<>>
    /\ stagingFile = NoFile
    /\ uploadedBytes = NoBytes
    /\ AnswersIdle
    /\ calls = CallsAfterGoto

AttachResumeAny == AttachResumeOn(FileControls)

NextUpload ==
    \/ AttachResumeAny
    \/ ExtractQuestions
    \/ NewOpenAI
    \/ AnswerQuestion
    \/ FindSubmit
    \/ WaitForURL
    \/ CheckValidationErrors
    \/ CheckSuccessMessage
    \/ Finally

SpecUpload == InitUpload /\ [][NextUpload]_vars

\* the segments of the URLs explored exhaustively; '' stands between two
\* slashes and after a trailing slash
Segments == {"jobs.example.com", "role-id", "application", ""}

\* the non-empty URLs of up to MaxSegments segments
Urls == {u \in SeqUpTo(Segments, MaxSegments) : u # <<>> /\ u # <<"">>}

\* the URL normalizer on every such URL: the handler stands at line 248, the
\* session open, before the listener is attached
InitUrl ==
    /\ payload \in {[SampleRequest EXCEPT !.url = u] : u \in Urls}
    /\ pc = "page"
    /\ kernelBrowser = TRUE
    /\ browser = TRUE
    /\ listening = FALSE
    /\ consoleErrors = <<>>
    /\ baseUrl = <<>>
    /\ applicationUrl = <<>>
    /\ ScraperIdle
    /\ MapperIdle
    /\ ResumeIdle
    /\ AnswersIdle
    /\ submitCount = -1
    /\ navigated = "unknown"
    /\ markers = <<>>
    /\ successText = FALSE
    /\ thrown = NoError
    /\ pending = NoResult
    /\ closed = FALSE
    /\ outcome = "running"
    /\ result = NoResult
    /\ calls = [c \in CallNames |-> IF c = "create" THEN 1 ELSE 0]

NextUrl == OpenPage

SpecUrl == InitUrl /\ [][NextUrl]_vars

\* lines 424-480: the resume of the request found no file input on the form
ResumeNotAttached ==
    /\ resumeFetch = "none"
    /\ resumeFilePath = SampleRequest.resumePath
    /\ uploaded = "no"
    /\ fileControls = NoFileControls
    /\ uploadAttempts = <<>>
    /\ stagingFile = NoFile
    /\ uploadedBytes = NoBytes

\* the question extractor and the answer loop on every list of up to
\* MaxQuestions textareas, on a form without labels and file inputs, with and
\* without a job description
InitQuestions ==
    /\ SessionOpen("questions")
    /\ \E page \in JobPageSamples :
          /\ jobPage = page
          /\ jobDescription = ScrapedText(page)
    /\ scrapeFailed = FALSE
    /\ MapperIdle
    /\ ResumeNotAttached
    /\ AnswersIdle
    /\ calls = CallsAfterGoto

ExtractQuestionsAny == ExtractQuestionsOn(TextareaLists)

NextQuestions ==
    \/ ExtractQuestionsAny
    \/ NewOpenAI
    \/ AnswerQuestion

SpecQuestions == InitQuestions /\ [][NextQuestions]_vars

\* ================================================================ claims
\* Two invocations on one host: the handler between its download and its
\* upload, while another invocation, whose request names another resumeUrl,
\* runs its own lines 410-416.  Both write the same path (line 415).
OtherResumeUrl == "https://other-host/resume.pdf"

StagingRequests ==
    {[SampleRequest EXCEPT !.resumeUrl = "https://host/resume.pdf", !.resumePath = path] :
        path \in {Undefined, "My_Resume.pdf"}}

\* lines 412-416, run by the other invocation: its download is written to
\* /tmp/resume.pdf
OtherInvocationStagesResume ==
    /\ stagingFile' = BytesAt(OtherResumeUrl)
    /\ NoCall
    /\ UNCHANGED <<payload, pc, session, consoleErrors, urls, scraper, mapper, resumeFetch,
                   resumeFilePath, uploaded, fileControls, uploadAttempts, uploadedBytes,
                   answers, verifier, thrown, pending, final>>

\* the handler is about to resolve its resume; the staging file does not exist
\* or is the one the other invocation left
InitStaging ==
    /\ payload \in StagingRequests
    /\ pc = "resume"
    /\ kernelBrowser = TRUE
    /\ browser = TRUE
    /\ listening = TRUE
    /\ consoleErrors = <<>>
    /\ baseUrl = StripApplication(SampleRequest.url)
    /\ applicationUrl = ApplicationUrl(StripApplication(SampleRequest.url))
    /\ ScraperIdle
    /\ MapperIdle
    /\ resumeFetch = "none"
    /\ resumeFilePath = Undefined
    /\ uploaded = "skipped"
    /\ fileControls = NoFileControls
    /\ uploadAttempts = <<>>
    /\ stagingFile \in {NoFile, BytesAt(OtherResumeUrl)}
    /\ uploadedBytes = NoBytes
    /\ AnswersIdle
    /\ submitCount = -1
    /\ navigated = "unknown"
    /\ markers = <<>>
    /\ successText = FALSE
    /\ thrown = NoError
    /\ pending = NoResult
    /\ closed = FALSE
    /\ outcome = "running"
    /\ result = NoResult
    /\ calls = CallsAfterGoto

NextStaging ==
    \/ ResolveResume
    \/ OtherInvocationStagesResume
    \/ AttachResumeAny

SpecStaging == InitStaging /\ [][NextStaging]_vars

\* ------------------------------------------------------------------ claims
\* the request lacks a required property, or holds it empty
Incomplete ==
    \E f \in RequiredFields : f \in payload.missing \/ payload[f] = EmptyValue(f)

Returned == outcome = "returned"

\* C1: a request in which url, name, email or linkedin is missing or empty is
\* answered with success=false and a non-empty errors list, the provisioning
\* service is never called, and no navigation, fetch, file write or
\* language-model call (nor any other collaborator call) is made.
C1_IncompleteRequestFailsFast ==
    Incomplete =>
        /\ \A c \in CallNames : calls[c] = 0
        /\ ~kernelBrowser /\ ~browser /\ ~listening
        /\ pc # "start" =>
              /\ pc = "done"
              /\ Returned
              /\ result.success = FALSE
              /\ Len(result.errors) > 0

C1_Witness ==
    /\ pc = "done"
    /\ payload.missing = {}
    /\ payload.name # "" /\ payload.email # "" /\ payload.url # <<>>
    /\ payload.linkedin = ""
    /\ Returned

\* C2: whenever the invocation provisioned a browser session, the session has
\* been closed by the time the invocation ends, on every exit path.
C2_SessionReleasedOnEveryExit ==
    (pc = "done" /\ kernelBrowser) => closed

\* C3: the invocation always ends by returning a well-formed result record
\* {success, message, errors?}; no exception escapes to the caller.
C3_NoExceptionEscapes ==
    pc = "done" =>
        /\ Returned
        /\ {"success", "message"} \subseteq DOMAIN result
        /\ DOMAIN result \subseteq {"success", "message", "errors"}

\* C4: in every run in which the confirmation wait began, the submit control
\* was clicked before it, exactly once.
C4_SubmitClickedOnceBeforeWait ==
    calls["waitForURL"] > 0 => calls["click"] = 1

\* C5: when the page navigates to the confirmation URL within the wait window,
\* the invocation returns {success: true, message: 'Application submitted
\* successfully.'} with no errors, whatever markers or success text the page holds.
C5_NavigationConfirms ==
    (pc = "done" /\ navigated = "yes") =>
        /\ Returned
        /\ result = [success |-> TRUE, message |-> "Application submitted successfully."]

\* C5, for the invocations that return: the result is the confirmed one.
Returned_NavigationConfirms ==
    (Returned /\ navigated = "yes") =>
        result = [success |-> TRUE, message |-> "Application submitted successfully."]

Returned_NavigationConfirms_Witness ==
    /\ Returned
    /\ navigated = "yes"
    /\ Len(markers) > 0
    /\ ~successText
    /\ result.success

\* C6: when the wait ends without navigation and the marker check finds at
\* least one validation marker, the invocation returns success=false with
\* errors equal to the marker texts in page order; when it finds none and
\* nothing else failed, the expired wait alone does not make a result a failure.
C6_MarkersFailTheSubmission ==
    (pc = "done" /\ navigated = "no" /\ thrown = NoError) =>
        IF Len(markers) > 0
        THEN /\ Returned
             /\ result.success = FALSE
             /\ result.errors = markers
        ELSE Returned => result.success = TRUE

\* C6, for the invocations that return.
Returned_MarkersFailTheSubmission ==
    (Returned /\ navigated = "no" /\ thrown = NoError) =>
        IF Len(markers) > 0
        THEN /\ result.success = FALSE
             /\ result.errors = markers
        ELSE result.success = TRUE

Returned_MarkersFailTheSubmission_Witness ==
    /\ Returned
    /\ navigated = "no"
    /\ thrown = NoError
    /\ Len(markers) = 2
    /\ successText
    /\ result.success = FALSE

\* C7: when the checks find neither a confirmation navigation nor a validation
\* marker nor a success text, the invocation returns success=true with the
\* qualifying message, which differs from the message of a confirmed submission.
C7_UnverifiedIsQualifiedSuccess ==
    (pc = "done" /\ navigated = "no" /\ thrown = NoError /\ markers = <<>> /\ ~successText) =>
        /\ Returned
        /\ result = [success |-> TRUE,
                     message |-> "Application submitted, but confirmation could not be verified."]
        /\ result.message # "Application submitted successfully."

\* C7, for the invocations that return.
Returned_UnverifiedIsQualifiedSuccess ==
    (Returned /\ navigated = "no" /\ thrown = NoError /\ markers = <<>> /\ ~successText) =>
        /\ result = [success |-> TRUE,
                     message |-> "Application submitted, but confirmation could not be verified."]
        /\ result.message # "Application submitted successfully."

Returned_UnverifiedIsQualifiedSuccess_Witness ==
    /\ Returned
    /\ navigated = "no"
    /\ thrown = NoError
    /\ markers = <<>>
    /\ ~successText
    /\ calls["successCheck"] = 1

\* C8: when no submit control is found, no click, no confirmation wait and no
\* marker or success-text check is made, and the invocation returns
\* success=false with a non-empty errors list.
C8_NoSubmitControlFails ==
    submitCount = 0 =>
        /\ calls["click"] = 0
        /\ calls["waitForURL"] = 0
        /\ calls["markerCheck"] = 0
        /\ calls["successCheck"] = 0
        /\ navigated = "unknown"
        /\ pc \in {"finally", "done"}
        /\ pc = "done" => (Returned /\ result.success = FALSE /\ Len(result.errors) > 0)

\* C8, for the invocations that return.
Returned_NoSubmitControlFails ==
    submitCount = 0 =>
        /\ calls["click"] = 0
        /\ calls["waitForURL"] = 0
        /\ calls["markerCheck"] = 0
        /\ calls["successCheck"] = 0
        /\ navigated = "unknown"
        /\ pc \in {"finally", "done"}
        /\ Returned => (result.success = FALSE /\ Len(result.errors) > 0)

Returned_NoSubmitControlFails_Witness ==
    /\ submitCount = 0
    /\ Returned
    /\ closed

\* C9: a returned result has success=false only if the request was incomplete,
\* no submit control was found, validation markers were found after the wait,
\* or an exception reached the catch clause of the handler; a scraping
\* failure, an unplaced field, a failed resume fetch or upload and an unfilled
\* answer do not make the result a failure.
C9_FailureHasOneOfFourCauses ==
    (Returned /\ result.success = FALSE) =>
        \/ Incomplete
        \/ submitCount = 0
        \/ (navigated = "no" /\ calls["markerCheck"] = 1 /\ Len(markers) > 0)
        \/ thrown # NoError

C9_Witness ==
    /\ Returned
    /\ result.success = TRUE
    /\ scrapeFailed
    /\ filled = {"email"}
    /\ resumeFetch = "fetchFailed"
    /\ uploaded = "no"
    /\ questions = 2 /\ answered = 0

\* C10: every console error the listener has recorded when a failing result is
\* built is among that result's errors, wherever the failure occurred.
C10_ConsoleErrorsInEveryFailure ==
    [][(pc # "finally" /\ pc' = "finally" /\ pending'.success = FALSE)
          => Range(consoleErrors) \subseteq Range(pending'.errors)]_vars

\* a setInputFiles call was made with the given file
Attached(file) == \E i \in 1..Len(uploadAttempts) : uploadAttempts[i].file = file

\* the run ended without an exception reaching the catch clause of line 604
EndedWithoutException == pc = "done" /\ thrown = NoError

\* the submission stage (line 568) was reached
SubmissionStageReached == submitCount >= 0

\* C11, as stated: when the request carries both resumePath and resumeUrl and
\* the download completes, the file attached is the one at resumePath; the
\* downloaded file is attached only when no resumePath was given.
C11_LocalPathPreferred ==
    /\ (payload.resumePath # Undefined /\ payload.resumeUrl # Undefined /\ resumeFetch = "ok")
          => \A i \in 1..Len(uploadAttempts) : uploadAttempts[i].file = payload.resumePath
    /\ Attached(StagedResume) => payload.resumePath = Undefined

\* C11, amended: the download is preferred.  When resumeUrl is given and its
\* download completes, every upload uses the staged file /tmp/resume.pdf, whether
\* or not a resumePath was given; the file at resumePath is attached only when
\* no resumeUrl was given or its download failed.
C11_DownloadPreferred ==
    /\ (payload.resumeUrl # Undefined /\ resumeFetch = "ok")
          => \A i \in 1..Len(uploadAttempts) : uploadAttempts[i].file = StagedResume
    /\ (payload.resumePath # Undefined /\ Attached(payload.resumePath))
          => (payload.resumeUrl = Undefined \/ resumeFetch = "fetchFailed")
    /\ \A i \in 1..Len(uploadAttempts) :
          uploadAttempts[i].file \in {StagedResume, payload.resumePath} \ {Undefined}

C11_Witness ==
    /\ payload.resumePath # Undefined
    /\ payload.resumeUrl # Undefined
    /\ resumeFetch = "ok"
    /\ uploaded = "yes"
    /\ Attached(StagedResume)
    /\ ~Attached(payload.resumePath)

\* C12, as stated: when resumeUrl is set and its fetch fails, no upload attempt
\* is made on any file control, and the pipeline still proceeds to the
\* submission stage.
C12_FailedFetchSkipsUpload ==
    (payload.resumeUrl # Undefined /\ resumeFetch = "fetchFailed") =>
        /\ uploadAttempts = <<>>
        /\ EndedWithoutException => SubmissionStageReached

\* C12, amended: when resumeUrl is set and its fetch fails, the resume source is
\* resumePath: with a resumePath every upload attempt uses that file, without
\* one no upload attempt is made; either way the failed fetch is not fatal and
\* the pipeline proceeds to the submission stage.
C12_FailedFetchFallsBackToPath ==
    (payload.resumeUrl # Undefined /\ resumeFetch = "fetchFailed") =>
        /\ resumeFilePath = payload.resumePath
        /\ \A i \in 1..Len(uploadAttempts) : uploadAttempts[i].file = payload.resumePath
        /\ payload.resumePath = Undefined => (uploadAttempts = <<>> /\ uploaded = "skipped")
        /\ thrown.site # "fetch"
        /\ pc \notin {"start", "create", "connect", "page", "scrape", "application",
                      "fields", "resume"}
        /\ EndedWithoutException => SubmissionStageReached

C12_Witness ==
    /\ payload.resumeUrl # Undefined
    /\ payload.resumePath # Undefined
    /\ resumeFetch = "fetchFailed"
    /\ uploaded = "yes"
    /\ Attached(payload.resumePath)
    /\ SubmissionStageReached
    /\ Returned

\* the position of a binding in the list of line 350
BindingIndex(b) == CHOOSE i \in 1..Len(Bindings) : Bindings[i] = b

Min(S) == CHOOSE x \in S : \A y \in S : x <= y

\* a label resolves to a control: through its 'for' attribute when it has one,
\* else through a control nested in it
ResolvesToControl(label) ==
    \/ label.for = "resolved"
    \/ label.for = "none" /\ label.nested

\* the labels of the form that match the binding and resolve to a control
LabelHits(b) ==
    {k \in 1..Len(formPage.labels) :
        Matches(b, formPage.labels[k].text) /\ ResolvesToControl(formPage.labels[k])}

\* the placeholder-bearing inputs whose placeholder matches the binding
PlaceholderHits(b) ==
    {i \in 1..Len(formPage.placeholders) : Matches(b, formPage.placeholders[i])}

\* C13: the bindings are processed in list order and for each at most one
\* control is filled: the first label in page order that matches and resolves to
\* a control, and no later label and no placeholder; if no label match
\* succeeded, the first input or textarea whose placeholder matches; a binding
\* with such a label or placeholder is filled.
C13_FirstMatchingControlOnly ==
    /\ \A i, j \in 1..Len(fills) :
          i < j => BindingIndex(fills[i].binding) < BindingIndex(fills[j].binding)
    /\ \A i \in 1..Len(fills) :
          LET b == fills[i].binding
              c == fills[i].control
          IN  IF LabelHits(b) # {}
              THEN /\ c.via \in {"for", "nested"}
                   /\ c.at = Min(LabelHits(b))
              ELSE /\ PlaceholderHits(b) # {}
                   /\ c.via = "placeholder"
                   /\ c.at = Min(PlaceholderHits(b))
    /\ (pc = "resume" /\ thrown = NoError) =>
          \A i \in 1..Len(Bindings) :
             (LabelHits(Bindings[i]) \cup PlaceholderHits(Bindings[i]) # {})
                <=> Bindings[i] \in filled

\* the name binding has two resolving labels, the linkedin binding only a
\* placeholder behind a non-matching one
C13_Witness ==
    /\ pc = "resume"
    /\ LabelHits("name") = {1, 2}
    /\ PlaceholderHits("linkedin") = {2}
    /\ LabelHits("linkedin") = {}
    /\ Len(fills) = 2
    /\ fills[1] = [binding |-> "name", control |-> Control("for", 1), value |-> payload.name]
    /\ fills[2].control = Control("placeholder", 2)

\* the field mapper ran: the request was complete and the application page opened
MapperRan ==
    /\ pc \notin {"start", "create", "connect", "page", "scrape", "application", "fields"}
    /\ ~Incomplete
    /\ thrown.site \notin {"create", "connect", "page", "goto"}

\* neither a label nor a placeholder of the form matches the binding
NoMatch(b) ==
    /\ \A k \in 1..Len(formPage.labels) : ~Matches(b, formPage.labels[k].text)
    /\ \A i \in 1..Len(formPage.placeholders) : ~Matches(b, formPage.placeholders[i])

\* the texts a result's errors may hold: the text of line 602, the validation
\* markers, the text of the exception caught at line 604 and the console errors
ErrorSources ==
    {"Submit button not found on page.", ErrorText(thrown)}
        \cup Range(markers) \cup Range(consoleErrors)

\* C14: when neither a label nor a placeholder matches a binding, required or
\* optional, nothing is filled for it, the bindings after it are still
\* processed, nothing is added to the result's errors, and the pipeline goes on
\* to the later stages and reaches the submission stage.
C14_UnmatchedBindingIsSkipped ==
    \A n \in 1..Len(Bindings) :
        (MapperRan /\ NoMatch(Bindings[n])) =>
            /\ Bindings[n] \notin BindingsOf(fills)
            /\ Bindings[n] \notin filled
            /\ thrown.site # "fill" =>
                  \A m \in (n + 1)..Len(Bindings) :
                      (LabelHits(Bindings[m]) \cup PlaceholderHits(Bindings[m]) # {})
                          => Bindings[m] \in filled
            /\ EndedWithoutException => SubmissionStageReached
            /\ (Returned /\ "errors" \in DOMAIN result)
                  => Range(result.errors) \subseteq ErrorSources

\* the required name binding and the optional linkedin binding match nothing,
\* the email binding after the name binding is placed, the run goes on
C14_Witness ==
    /\ MapperRan
    /\ NoMatch("name")
    /\ NoMatch("linkedin")
    /\ filled = {"email"}
    /\ SubmissionStageReached
    /\ Returned
    /\ result.success

\* C15: a failed completion, an empty answer or a failed fill leaves only that
\* question's textarea unfilled: a request is made for every question in queue
\* order, the loop is left only after the last question, the questions after a
\* failed one are still answered, and the pipeline proceeds to the submission
\* stage.
C15_AnswerFailuresAreIsolated ==
    /\ Len(prompts) = qi
    /\ \A j \in 1..qi : prompts[j].question = openEndedQuestions[j].label
    /\ answerFills \subseteq {openEndedQuestions[j].locator : j \in 1..qi}
    /\ answered = Cardinality(answerFills)
    /\ (qi > 0 /\ pc # "answers") => qi = questions
    /\ qi > 0 => thrown.site \notin {"completion", "openai", "textarea"}
    /\ (qi > 0 /\ EndedWithoutException) => SubmissionStageReached

\* the first question was left unfilled, the second was answered after it
C15_Witness ==
    /\ questions = 2
    /\ qi = 2
    /\ answerFills = {openEndedQuestions[2].locator}
    /\ Len(prompts) = 2
    /\ SubmissionStageReached
    /\ Returned

\* the positions of the visible textareas of the form
VisibleTextareas == {i \in 1..Len(textareas) : textareas[i].visible}

\* the scan of the textareas completed
Extracted == pc \notin {"questions"} /\ thrown.site # "textarea"

\* C16: exactly one question is queued per visible textarea, in page order, and
\* none for a textarea that is not visible; a textarea for which no strategy
\* finds a label is queued with the label '', and once the answer loop has
\* ended a request was made for every queued question, with its label.
C16_OneQuestionPerVisibleTextarea ==
    Extracted =>
        /\ {openEndedQuestions[j].locator : j \in 1..Len(openEndedQuestions)} = VisibleTextareas
        /\ Len(openEndedQuestions) = Cardinality(VisibleTextareas)
        /\ \A j, k \in 1..Len(openEndedQuestions) :
              j < k => openEndedQuestions[j].locator < openEndedQuestions[k].locator
        /\ \A j \in 1..Len(openEndedQuestions) :
              LET t == textareas[openEndedQuestions[j].locator]
              IN  (t.byFor = "" /\ t.byAncestor = "" /\ t.bySibling = "")
                      => openEndedQuestions[j].label = ""
        /\ (pc = "submit" /\ thrown = NoError) =>
              /\ Len(prompts) = Len(openEndedQuestions)
              /\ \A j \in 1..Len(prompts) :
                    prompts[j].question = openEndedQuestions[j].label

\* an invisible textarea before a visible one without any label: one question
\* with the empty label, and one request for it
C16_Witness ==
    /\ pc = "submit"
    /\ Len(textareas) = 2
    /\ ~textareas[1].visible
    /\ textareas[2] = [visible |-> TRUE, byFor |-> "", byAncestor |-> "", bySibling |-> ""]
    /\ openEndedQuestions = <<[label |-> "", locator |-> 2]>>
    /\ Len(prompts) = 1
    /\ prompts[1].question = ""

\* lines 260-261 applied to a URL: the pair (baseUrl, applicationUrl)
Normalized(url) == <<StripApplication(url), ApplicationUrl(StripApplication(url))>>

\* C17: normalizing the baseUrl and normalizing the applicationUrl obtained from
\* a request URL each give the same (baseUrl, applicationUrl) pair as the
\* request URL gave, for every request URL.
C17_NormalizationIsIdempotent ==
    listening =>
        /\ <<baseUrl, applicationUrl>> = Normalized(payload.url)
        /\ Normalized(baseUrl) = <<baseUrl, applicationUrl>>
        /\ Normalized(applicationUrl) = <<baseUrl, applicationUrl>>

\* the selectors of the job page whose element holds a text
SelectorsWithText == {k \in 1..SelectorCount : jobPage.selectors[k] = "text"}

\* C18: the job description is the text of the first selector, in the fixed
\* order, whose text is non-empty; the full page text is used only if no
\* selector yields a non-empty text.
C18_FirstNonEmptySelectorWins ==
    (pc = "application" /\ ~scrapeFailed) =>
        IF SelectorsWithText # {}
        THEN jobDescription = SelectorText(Min(SelectorsWithText))
        ELSE jobDescription = jobPage.body

\* C19: after a navigation or extraction error in the scraper the pipeline goes
\* on to the application page with no job context, every prompt carries 'Not
\* available' in place of the job description, and the scraping error is not the
\* error of a failing result.
C19_ScrapingErrorIsAbsorbed ==
    scrapeFailed =>
        /\ jobDescription = ""
        /\ pc \notin {"start", "create", "connect", "page", "scrape"}
        /\ pc # "application" => calls["goto"] = 2
        /\ \A j \in 1..Len(prompts) : prompts[j].context = "Not available"
        /\ thrown.site # "scrape"
        /\ (Returned /\ "errors" \in DOMAIN result)
              => Range(result.errors) \subseteq ErrorSources

\* the scraper failed, the questions were still answered and the run succeeded
C19_Witness ==
    /\ scrapeFailed
    /\ Len(prompts) = 2
    /\ prompts[2].context = "Not available"
    /\ answered = 2
    /\ Returned
    /\ result.success

\* the candidate file controls of the form, in the order they are tried: the
\* labelled ones in page order, then the first file input
Candidates ==
    [k \in 1..Len(fileControls.labelled) |-> "label " \o ToString(k)]
        \o (IF fileControls.fallback # "none" THEN <<"first file input">> ELSE <<>>)

\* the upload stage ran to its end with a resume source
UploadStageEnded ==
    /\ resumeFilePath # Undefined
    /\ pc \notin {"start", "create", "connect", "page", "scrape", "application", "fields",
                  "resume", "upload"}
    /\ thrown.site \notin {"create", "connect", "page", "goto", "fill", "label"}

\* C20: a failed upload on one candidate file control is followed by an attempt
\* on the next candidate; when the uploads fail on every candidate, or there is
\* none, no exception results, nothing is added to the result's errors, and the
\* pipeline proceeds to the question stage and the submission stage.
C20_UploadAttemptsAreGuarded ==
    UploadStageEnded =>
        /\ Len(uploadAttempts) <= Len(Candidates)
        /\ \A i \in 1..Len(uploadAttempts) :
              /\ uploadAttempts[i].control = Candidates[i]
              /\ (~uploadAttempts[i].ok /\ i < Len(Candidates)) => Len(uploadAttempts) > i
        /\ uploaded = "no" =>
              /\ Len(uploadAttempts) = Len(Candidates)
              /\ \A i \in 1..Len(uploadAttempts) : ~uploadAttempts[i].ok
        /\ thrown.site # "upload"
        /\ EndedWithoutException => (Extracted /\ SubmissionStageReached)
        /\ (Returned /\ "errors" \in DOMAIN result)
              => Range(result.errors) \subseteq ErrorSources

\* the upload failed on two labelled file inputs and on the first file input of
\* the form, and the run went on to a successful result
C20_Witness ==
    /\ UploadStageEnded
    /\ fileControls = [labelled |-> <<"fail", "fail">>, fallback |-> "fail"]
    /\ Len(uploadAttempts) = 3
    /\ uploaded = "no"
    /\ questions > 0
    /\ SubmissionStageReached
    /\ Returned
    /\ result.success

\* an exception was raised after validation: one reached the catch clause of the
\* handler, or browser.close() rejected in the finally clause
ExceptionAfterValidation == thrown # NoError \/ outcome = "threw"

\* C21: when an otherwise-uncaught exception occurs after validation, the result
\* is success=false with the generic message, and its errors are the text of the
\* error followed by the console errors recorded until then, in the order they
\* were observed.
C21_UnexpectedErrorIsReported ==
    (pc = "done" /\ ExceptionAfterValidation) =>
        /\ Returned
        /\ result.success = FALSE
        /\ result.message = "An unexpected error occurred during the process."
        /\ Len(result.errors) >= 1
        /\ Tail(result.errors) = SubSeq(consoleErrors, 1, Len(result.errors) - 1)

\* C21, for the exceptions that reach the catch clause: the result built at
\* lines 605-606 is the text of the error, then the console errors recorded so far.
Caught_UnexpectedErrorIsReported ==
    [][(thrown = NoError /\ thrown' # NoError) =>
          /\ pending'.success = FALSE
          /\ pending'.message = "An unexpected error occurred during the process."
          /\ pending'.errors = <<IF thrown'.message # "" THEN thrown'.message ELSE "Error">>
                                   \o [k \in 1..Len(consoleErrors) |-> ConsoleText(k)]]_vars

\* C21, for the invocations that return.
Returned_UnexpectedErrorIsReported ==
    (Returned /\ thrown # NoError) =>
        /\ result.success = FALSE
        /\ result.message = "An unexpected error occurred during the process."
        /\ result.errors[1] \in {thrown.site, "Error"}
        /\ Tail(result.errors) = SubSeq(consoleErrors, 1, Len(result.errors) - 1)

\* two console errors were recorded before the constructor of line 526 threw
Returned_UnexpectedErrorIsReported_Witness ==
    /\ Returned
    /\ thrown.site = "openai"
    /\ Len(result.errors) = 3
    /\ closed

\* the stage of the pipeline the handler stands in: 1 validate, 2 provision the
\* session, 3 scrape the job page, 4 open the application page, 5 map fields,
\* 6 resolve and attach the resume, 7 extract questions, 8 generate and fill
\* answers, 9 submit and verify, 10 cleanup and end
StageOf(p) ==
    CASE p = "start" -> 1
      [] p \in {"create", "connect", "page"} -> 2
      [] p = "scrape" -> 3
      [] p = "application" -> 4
      [] p = "fields" -> 5
      [] p \in {"resume", "upload"} -> 6
      [] p = "questions" -> 7
      [] p \in {"openai", "answers"} -> 8
      [] p \in {"submit", "wait", "checkErrors", "checkSuccess"} -> 9
      [] OTHER -> 10

\* what a stage leaves behind shows that it has begun
StageBegun(k) ==
    CASE k = 2 -> calls["create"] > 0
      [] k = 3 -> calls["goto"] >= 1
      [] k = 4 -> calls["goto"] >= 2
      [] k = 5 -> fills # <<>>
      [] k = 6 -> calls["fetch"] > 0 \/ resumeFilePath # Undefined \/ uploadAttempts # <<>>
      [] k = 7 -> openEndedQuestions # <<>>
      [] k = 8 -> calls["completion"] > 0
      [] k = 9 -> submitCount >= 0
      [] OTHER -> TRUE

\* the fill stages have finished: every binding of fieldConfigs was tried, the
\* upload stage is over, and every queued question went through the answer loop
FillStagesFinished ==
    /\ fills = FillCalls(formPage, payload, Len(Bindings))
    /\ Len(uploadAttempts) = calls["upload"]
    /\ (resumeFilePath # Undefined /\ uploaded = "no")
          => Len(uploadAttempts) = Len(Candidates)
    /\ questions = Len(openEndedQuestions)
    /\ qi = questions
    /\ Len(prompts) = questions

\* C22: the stages of one invocation run in the order validate, provision
\* session, scrape, open application page, map fields, resume, extract
\* questions, answers, submit and verify: no stage has begun while the handler
\* stands in an earlier one, the handler moves from a stage to the next one only
\* (the answer stage is passed over when no question was queued), the session is
\* provisioned at most once and only for a complete request, and the submit
\* control is looked up only after every fill stage has finished.
C22_StagesRunInOrder ==
    /\ [](/\ \A k \in 2..9 : StageBegun(k) => StageOf(pc) >= k
          /\ calls["create"] <= 1
          /\ calls["create"] > 0 => ~Incomplete
          /\ kernelBrowser => calls["create"] = 1
          /\ StageOf(pc) = 9 => FillStagesFinished
          /\ submitCount >= 0 => FillStagesFinished)
    /\ [][(StageOf(pc') # StageOf(pc) /\ StageOf(pc') < 10) =>
              \/ StageOf(pc') = StageOf(pc) + 1
              \/ StageOf(pc) = 7 /\ StageOf(pc') = 9 /\ questions' = 0]_vars

\* a run through all nine stages: fields were filled, the resume was uploaded,
\* two questions were answered, and the submission was confirmed
C22_Witness ==
    /\ Returned
    /\ result.success
    /\ fills # <<>>
    /\ uploaded = "yes"
    /\ questions = 2 /\ answered = 2
    /\ submitCount = 1
    /\ navigated = "yes"

\* a label gives a control by its 'for' target or, failing that, by a control
\* nested in it
GivesControl(label) == label.for = "resolved" \/ label.nested

\* the labels that match the binding and wrap a control while their 'for'
\* attribute names no element, with no label before them that matches the
\* binding and gives a control
DanglingForHits(b) ==
    {k \in 1..Len(formPage.labels) :
        /\ Matches(b, formPage.labels[k].text)
        /\ formPage.labels[k].for = "unresolved"
        /\ formPage.labels[k].nested
        /\ \A j \in 1..(k - 1) :
              ~(Matches(b, formPage.labels[j].text) /\ GivesControl(formPage.labels[j]))}

\* C23: a matching label whose 'for' attribute points to no element but which
\* wraps an input gets that nested input filled with the binding's value.
C23_DanglingForFallsBackToNested ==
    (pc = "resume" /\ thrown = NoError) =>
        \A i \in 1..Len(Bindings) :
           \A k \in DanglingForHits(Bindings[i]) :
              \E n \in 1..Len(fills) :
                 fills[n] = [binding |-> Bindings[i], control |-> Control("nested", k),
                             value |-> payload[Bindings[i]]]

\* C23, as the code has it: the control nested in a label is filled only when
\* the label has no 'for' attribute.
NestedControlOnlyWithoutFor ==
    \A n \in 1..Len(fills) :
       fills[n].control.via = "nested" => formPage.labels[fills[n].control.at].for = "none"

\* the name binding found only a label with a dangling 'for' around an input,
\* and nothing was filled for it
NestedControlOnlyWithoutFor_Witness ==
    /\ pc = "resume"
    /\ thrown = NoError
    /\ DanglingForHits("name") = {1}
    /\ "name" \notin filled

\* the verifier came to a verdict after a wait that ended without navigation
VerdictWithoutNavigation ==
    /\ navigated = "no"
    /\ thrown = NoError
    /\ pc \in {"finally", "done"}

\* C24: after a confirmation wait that ends without navigation the verifier looks
\* for validation markers first and for the success text second: with a marker
\* and the success text both on the page the result is the validation failure
\* (success=false) and the success text is not looked for; with the success text
\* only it is success=true with the unqualified message; the qualified message
\* is the result only when both are absent.
C24_MarkersBeforeSuccessText ==
    /\ calls["markerCheck"] > 0 => navigated = "no"
    /\ calls["successCheck"] > 0 => (calls["markerCheck"] = 1 /\ markers = <<>>)
    /\ VerdictWithoutNavigation =>
          /\ calls["markerCheck"] = 1
          /\ markers # <<>> =>
                /\ pending.success = FALSE
                /\ pending.message = "Submission failed with validation errors."
                /\ pending.errors = markers
                /\ calls["successCheck"] = 0
          /\ (markers = <<>> /\ successText) =>
                pending = [success |-> TRUE, message |-> "Application submitted successfully."]
          /\ (pending.message = "Application submitted, but confirmation could not be verified.")
                <=> (markers = <<>> /\ ~successText)
          /\ Returned => result = pending

\* the wait timed out on a page that shows a validation marker and the success
\* text; the invocation returned the validation failure
C24_Witness ==
    /\ VerdictWithoutNavigation
    /\ markers = <<MarkerText(1)>>
    /\ successText
    /\ Returned
    /\ result.success = FALSE
    /\ calls["successCheck"] = 0

\* the labelled candidates that accept the file
AcceptingLabels ==
    {k \in 1..Len(fileControls.labelled) : fileControls.labelled[k] = "ok"}

\* the setInputFiles calls that completed
AcceptedAttempts == {i \in 1..Len(uploadAttempts) : uploadAttempts[i].ok}

\* C25: the resume goes to the labelled file controls first, in label order, and
\* to the first file input of the form only if no labelled candidate accepted
\* it; after a completed upload no further upload is attempted, so at most one
\* file control receives the resume.
C25_AtMostOneControlReceivesResume ==
    UploadStageEnded =>
        /\ \A i \in 1..Len(uploadAttempts) :
              /\ uploadAttempts[i].control = Candidates[i]
              /\ uploadAttempts[i].file = resumeFilePath
        /\ (\E i \in 1..Len(uploadAttempts) : uploadAttempts[i].control = "first file input")
              => AcceptingLabels = {}
        /\ Cardinality(AcceptedAttempts) <= 1
        /\ \A i \in AcceptedAttempts : i = Len(uploadAttempts)
        /\ IF AcceptingLabels # {}
           THEN /\ uploaded = "yes"
                /\ AcceptedAttempts = {Min(AcceptingLabels)}
           ELSE IF fileControls.fallback = "ok"
                THEN /\ uploaded = "yes"
                     /\ AcceptedAttempts = {Len(fileControls.labelled) + 1}
                ELSE uploaded = "no" /\ AcceptedAttempts = {}

\* the first labelled input rejected the file, the second took it, and the first
\* file input of the form, which would have taken it too, was left alone
C25_Witness ==
    /\ UploadStageEnded
    /\ fileControls = [labelled |-> <<"fail", "ok">>, fallback |-> "ok"]
    /\ Len(uploadAttempts) = 2
    /\ uploadAttempts[2].ok
    /\ uploaded = "yes"

\* C26: a result is immutable once produced: a console error the listener
\* records after the result record was built, for example while the browser is
\* being closed, changes neither the record nor the result the caller receives,
\* and the caller receives the record as it was built.
C26_ResultIsImmutable ==
    /\ [][pending # NoResult => pending' = pending]_vars
    /\ [][result # NoResult => result' = result]_vars
    /\ [][consoleErrors' # consoleErrors => (pending' = pending /\ result' = result)]_vars
    /\ []((Returned /\ pending # NoResult) => result = pending)

\* the failure result was built with one console error recorded; a second one
\* arrived before the browser was closed, and the caller received two entries
C26_Witness ==
    /\ Returned
    /\ closed
    /\ thrown # NoError
    /\ Len(consoleErrors) = 2
    /\ result.errors = <<ErrorText(thrown), ConsoleText(1)>>

\* C27: the language-model client is constructed only when a question was
\* queued, and with no question no completion is requested; a failure to
\* construct the client is absorbed, so a run that queued questions and met no
\* other exception still reaches the submission stage.
C27_ClientFailureIsAbsorbed ==
    /\ pc = "openai" => questions > 0
    /\ calls["completion"] > 0 => questions > 0
    /\ thrown.site # "openai"
    /\ (pc = "done" /\ questions > 0 /\ thrown.site \in {"none", "openai"})
          => SubmissionStageReached

\* C27, its first half: the client is constructed, and a completion requested,
\* only when a question was queued.
ClientOnlyWithQuestions ==
    /\ pc = "openai" => questions > 0
    /\ thrown.site = "openai" => questions > 0
    /\ calls["completion"] > 0 => questions > 0
    /\ calls["completion"] <= questions

\* a form without a visible textarea: the submit button was looked up without a
\* client and without a completion request
ClientOnlyWithQuestions_Witness ==
    /\ SubmissionStageReached
    /\ thrown = NoError
    /\ questions = 0
    /\ calls["completion"] = 0

\* C27, as the code has it: a constructor that throws ends the run in the catch
\* clause of the handler, before the first completion and before the submit
\* button is looked up.
ClientFailureEndsTheRun ==
    thrown.site = "openai" =>
        /\ calls["completion"] = 0
        /\ answered = 0
        /\ ~SubmissionStageReached
        /\ pending.success = FALSE
        /\ pending.message = "An unexpected error occurred during the process."

\* C28: an invocation whose download completed attaches the bytes fetched from
\* its own resumeUrl, whatever another invocation writes to the staging file
\* between this invocation's download and its upload.
C28_OwnResumeIsUploaded ==
    (resumeFetch = "ok" /\ uploadedBytes # NoBytes)
        => uploadedBytes = BytesAt(payload.resumeUrl)

\* C28, for an invocation that has the host to itself: the bytes attached are
\* the ones it downloaded.
AloneOwnResumeIsUploaded ==
    /\ (resumeFetch = "ok" /\ uploadedBytes # NoBytes)
          => uploadedBytes = BytesAt(payload.resumeUrl)
    /\ uploaded = "yes" <=> uploadedBytes # NoBytes

AloneOwnResumeIsUploaded_Witness ==
    /\ resumeFetch = "ok"
    /\ uploaded = "yes"
    /\ uploadedBytes = "bytes of https://host/resume.pdf"
    /\ Returned

\* C28, as the code has it: what is attached is what /tmp/resume.pdf holds when
\* setInputFiles is called.
StagingFileIsReadAtUpload ==
    [][(resumeFilePath = StagedResume /\ uploadedBytes' # uploadedBytes)
          => uploadedBytes' = stagingFile]_vars

====
